---- MODULE Spec2Model ----
(***************************************************************************)
(* Model of AI_picker_public/tflib/model.py: BaseModel.save, BaseModel.load *)
(* and the training loop BaseModel.train, with the checkpoint directory,   *)
(* the session, the summary writer, the coordinator and the data threads   *)
(* that train drives.                                                      *)
(***************************************************************************)
EXTENDS Integers, Sequences, FiniteSets, TLC

VARIABLES
  resume,           \* argument of train (model.py:125)
  summary_step,     \* argument of train (model.py:125)
  checkpoint_step,  \* argument of train (model.py:126): {} is None, {n} is n
  pc,               \* position of the coordinating thread in train
  sess,             \* the session's variables: global_step and the parameters
  dir,              \* the checkpoint directory on disk
  writer,           \* self.summary_writer: "none", "open", "closed"
  coord,            \* the coordinator: stop flag and reported exception
  threads,          \* the data threads started by start_queue_runners
  step,             \* local variable step of train (model.py:164,168)
  pending,          \* the exception in flight, if any
  caught,           \* the except clause that was entered, if any
  nsteps,           \* number of train steps run so far
  log               \* history of the calls train has made and of what it raised,
                    \* in order, with the entry into the try statement

vars == <<resume, summary_step, checkpoint_step, pc, sess, dir, writer, coord,
          threads, step, pending, caught, nsteps, log>>

-----------------------------------------------------------------------------
(* Bounds of the model. *)

MaxTrainSteps == 2
MaxOps == 3
MaxAdvance == 2

\* Config.n_threads (convnet/config.py:5): the number of data threads
NThreads == 2

-----------------------------------------------------------------------------
(* Values. *)

None == {}
Some(n) == {n}
ValueOf(x) == CHOOSE v \in x : TRUE

KeyboardInterrupt == "KeyboardInterrupt"
OutOfRangeError == "OutOfRangeError"
OtherError == "OtherError"

NoExc == [kind |-> "none", at |-> "none"]
Exc(kind, at) == [kind |-> kind, at |-> at]

Ev(op, arg) == [op |-> op, arg |-> arg, exc |-> NoExc]
EvRaise(kind, at) == [op |-> "raise", arg |-> 0, exc |-> Exc(kind, at)]

-----------------------------------------------------------------------------
(* str(step) and the names of checkpoint files. *)

DigitChar(d) ==
  CASE d = 0 -> "0" [] d = 1 -> "1" [] d = 2 -> "2" [] d = 3 -> "3"
    [] d = 4 -> "4" [] d = 5 -> "5" [] d = 6 -> "6" [] d = 7 -> "7"
    [] d = 8 -> "8" [] d = 9 -> "9"

RECURSIVE Str(_)
Str(n) ==
  IF n < 0 THEN <<"-">> \o Str(-n)
  ELSE IF n < 10 THEN <<DigitChar(n)>>
  ELSE Str(n \div 10) \o <<DigitChar(n % 10)>>

\* os.path.join(self.checkpoint_dir, 'model'), relative to the directory
SavePrefix == <<"m", "o", "d", "e", "l">>

\* the file tf.train.Saver.save writes for save_path and global_step
SaverFile(save_path, global_step) == save_path \o <<"-">> \o Str(global_step)

\* os.path.join(self.checkpoint_dir, "model-"+str(step)), relative to the directory
LoadPathNoDash(s) == <<"m", "o", "d", "e", "l">> \o Str(s)

LoadPath(s) == <<"m", "o", "d", "e", "l", "-">> \o Str(s)

-----------------------------------------------------------------------------
(* The checkpoint directory and the session. *)

NoFile == <<>>

EmptyDir == [exists |-> FALSE, files |-> {}, latest |-> NoFile]

InitSess == [global_step |-> 0, params |-> 0]
Uninitialized == [global_step |-> -1, params |-> -1]

FileNames(d) == {f.name : f \in d.files}
FileAt(d, name) == CHOOSE f \in d.files : f.name = name

\* tf.train.Saver.save(sess, save_path, global_step=...): fails when the parent
\* directory does not exist; else writes the file and records it as the latest
SaverSave(d, s, save_path) ==
  LET name == SaverFile(save_path, s.global_step)
      file == [name |-> name, content |-> s]
  IN IF d.exists
     THEN [ok |-> TRUE,
           dir |-> [d EXCEPT !.files = {f \in d.files : f.name # name} \cup {file},
                             !.latest = name]]
     ELSE [ok |-> FALSE, dir |-> d]

\* BaseModel.save(sess): the outcome and the directory after it
Save(d, s) ==
  LET d1 == IF ~d.exists THEN [d EXCEPT !.exists = TRUE] ELSE d
  IN SaverSave(d1, s, SavePrefix)

\* tf.train.latest_checkpoint(self.checkpoint_dir): None when there is none
LatestCheckpoint(d) == d.latest

\* BaseModel.load(sess, step): st is None or Some(n)
CheckpointPath(d, st) ==
  IF st = None THEN LatestCheckpoint(d) ELSE LoadPath(ValueOf(st))

\* self.saver.restore(sess, checkpoint_path): fails when the path is None or
\* names no checkpoint; else the session takes the checkpoint's values
Restore(d, s, path) ==
  IF path # NoFile /\ path \in FileNames(d)
  THEN [ok |-> TRUE, sess |-> FileAt(d, path).content]
  ELSE [ok |-> FALSE, sess |-> s]

Load(d, s, st) == Restore(d, s, CheckpointPath(d, st))

-----------------------------------------------------------------------------
(* Inputs of train and the directories it may find. *)

SummaryStepDomain == {0, 2}
CheckpointStepDomain == {None, Some(0), Some(2)}

CkptSess(n) == [global_step |-> n, params |-> n]

\* directories left by earlier runs: nothing, or two checkpoints of which
\* the one saved last (the latest) is not the one of the highest step
InitDirs ==
  {EmptyDir,
   Save(Save(EmptyDir, CkptSess(2)).dir, CkptSess(1)).dir}

\* step % b where step is the numpy integer that sess.run returned for
\* global_step: the result has the sign of b, and the remainder by 0 is 0
\* (numpy warns and does not raise)
NpMod(a, b) ==
  IF b = 0 THEN 0 ELSE IF b > 0 THEN a % b ELSE -((-a) % (-b))

Thread == 1..NThreads

Init ==
  /\ resume \in BOOLEAN
  /\ summary_step \in SummaryStepDomain
  /\ checkpoint_step \in CheckpointStepDomain
  /\ dir \in InitDirs
  /\ pc = "session"
  /\ sess = Uninitialized
  /\ writer = "none"
  /\ coord = [stop |-> FALSE, exc |-> FALSE]
  /\ threads = [t \in Thread |-> "unstarted"]
  /\ step = 0
  /\ pending = NoExc
  /\ caught = "none"
  /\ nsteps = 0
  /\ log = <<>>

-----------------------------------------------------------------------------
(* train, before the loop. *)

\* model.py:149-150: the session is opened and the summary writer is opened
\* on the checkpoint directory, which the writer creates when missing
OpenSession ==
  /\ pc = "session"
  /\ writer' = "open"
  /\ dir' = [dir EXCEPT !.exists = TRUE]
  /\ log' = Append(log, Ev("file_writer", 0))
  /\ pc' = "init_local"
  /\ UNCHANGED <<resume, summary_step, checkpoint_step, sess, coord, threads,
                 step, pending, caught, nsteps>>

\* model.py:153
InitLocal ==
  /\ pc = "init_local"
  /\ log' = Append(log, Ev("init_local", 0))
  /\ pc' = "init_global"
  /\ UNCHANGED <<resume, summary_step, checkpoint_step, sess, dir, writer,
                 coord, threads, step, pending, caught, nsteps>>

\* model.py:154: every global variable takes its initial value
InitGlobal ==
  /\ pc = "init_global"
  /\ sess' = InitSess
  /\ log' = Append(log, Ev("init_global", 0))
  /\ pc' = "resume"
  /\ UNCHANGED <<resume, summary_step, checkpoint_step, dir, writer, coord,
                 threads, step, pending, caught, nsteps>>

\* model.py:155-156: load(sess) when resume is set; a failing load leaves
\* train before the try statement is entered
ResumeSkipLoad ==
  /\ pc = "resume"
  /\ pc' = "start_threads"
  /\ UNCHANGED <<resume, summary_step, checkpoint_step, sess, dir, writer,
                 coord, threads, step, pending, caught, nsteps, log>>

Resume ==
  /\ pc = "resume"
  /\ IF resume
     THEN LET r == Load(dir, sess, None)
          IN IF r.ok
             THEN /\ sess' = r.sess
                  /\ log' = Append(log, Ev("load", r.sess.global_step))
                  /\ pc' = "start_threads"
                  /\ UNCHANGED pending
             ELSE /\ pending' = Exc(OtherError, "load")
                  /\ log' = Append(log, EvRaise(OtherError, "load"))
                  /\ pc' = "raised"
                  /\ UNCHANGED sess
     ELSE /\ pc' = "start_threads"
          /\ UNCHANGED <<sess, log, pending>>
  /\ UNCHANGED <<resume, summary_step, checkpoint_step, dir, writer, coord,
                 threads, step, caught, nsteps>>

\* Coordinator.request_stop(ex): the first request sets the stop flag and
\* records the exception it is given; a later one changes nothing
CoordRequestStop(c, failed) ==
  IF c.stop THEN c ELSE [stop |-> TRUE, exc |-> failed]

\* model.py:158-160: the coordinator is created, the data threads are started
\* and run from here on, concurrently with the rest of train
StartThreads ==
  /\ pc = "start_threads"
  /\ coord' = [stop |-> FALSE, exc |-> FALSE]
  /\ threads' = [t \in Thread |-> "running"]
  /\ log' = Append(log, Ev("start_threads", 0))
  /\ pc' = "enter_try"
  /\ UNCHANGED <<resume, summary_step, checkpoint_step, sess, dir, writer,
                 step, pending, caught, nsteps>>

\* model.py:162-165: step = 0, then the try statement is entered
EnterTry ==
  /\ pc = "enter_try"
  /\ step' = 0
  /\ log' = Append(log, Ev("try", 0))
  /\ pc' = "while"
  /\ UNCHANGED <<resume, summary_step, checkpoint_step, sess, dir, writer,
                 coord, threads, pending, caught, nsteps>>

-----------------------------------------------------------------------------
(* The try statement of train: loop, except clauses, finally. *)

\* the except clause of model.py:188-194 that an exception raised inside the
\* try block reaches; an exception no clause names goes to the finally clause
HandlerForCatchAll(kind) ==
  IF kind = OutOfRangeError THEN "except_oor" ELSE "except_ki"

HandlerFor(kind) ==
  CASE kind = KeyboardInterrupt -> "except_ki"
    [] kind = OutOfRangeError -> "except_oor"
    [] OTHER -> "finally"

\* an exception of this kind is raised at this place of the try block
RaiseInTry(kind, at) ==
  /\ pending' = Exc(kind, at)
  /\ log' = Append(log, EvRaise(kind, at))
  /\ pc' = HandlerFor(kind)

\* model.py:166: while not coord.should_stop()
While ==
  /\ pc = "while"
  /\ pc' = IF coord.stop THEN "finally" ELSE "train_step"
  /\ UNCHANGED <<resume, summary_step, checkpoint_step, sess, dir, writer,
                 coord, threads, step, pending, caught, nsteps, log>>

\* model.py:167-168 with _train_step (model.py:60-73): the fetches run the
\* subclass's training op, which may or may not advance global_step, and
\* fetch global_step in the same run, before or after the advance
TrainStep ==
  /\ pc = "train_step"
  /\ nsteps < MaxTrainSteps
  /\ \E inc \in {0, 1} : \E s \in {sess.global_step, sess.global_step + inc} :
       /\ sess' = [global_step |-> sess.global_step + inc,
                   params |-> sess.params + 1]
       /\ step' = s
       /\ log' = Append(log, Ev("train_step", s))
  /\ nsteps' = nsteps + 1
  /\ pc' = "if_summary"
  /\ UNCHANGED <<resume, summary_step, checkpoint_step, dir, writer, coord,
                 threads, pending, caught>>

\* model.py:167: the train step raises. OutOfRangeError and other failures
\* come out of the session run, which then has changed nothing. A
\* KeyboardInterrupt surfaces between two bytecodes: before the run of
\* model.py:71, or when that run returns, after the training op was applied
\* (global_step and parameters advanced) and before step is assigned.
TrainStepRaises ==
  /\ pc = "train_step"
  /\ \/ /\ \E kind \in {KeyboardInterrupt, OutOfRangeError, OtherError} :
             RaiseInTry(kind, "train_step")
        /\ UNCHANGED sess
     \/ /\ RaiseInTry(KeyboardInterrupt, "train_step")
        /\ \E inc \in {0, 1} :
             sess' = [global_step |-> sess.global_step + inc,
                      params |-> sess.params + 1]
  /\ UNCHANGED <<resume, summary_step, checkpoint_step, dir, writer,
                 coord, threads, step, caught, nsteps>>

\* model.py:169: if step > 0 and step % summary_step == 0
IfSummary ==
  /\ pc = "if_summary"
  /\ pc' = IF step > 0 /\ NpMod(step, summary_step) = 0
           THEN "summary" ELSE "if_checkpoint"
  /\ UNCHANGED <<resume, summary_step, checkpoint_step, sess, dir, writer,
                 coord, threads, step, pending, caught, nsteps, log>>

\* model.py:178-180: _summary_step, then add_summary(..., global_step=step)
SummaryTagsGlobalStep ==
  /\ pc = "summary"
  /\ writer = "open"
  /\ log' = Append(log, Ev("add_summary", sess.global_step))
  /\ pc' = "if_checkpoint"
  /\ UNCHANGED <<resume, summary_step, checkpoint_step, sess, dir, writer,
                 coord, threads, step, pending, caught, nsteps>>

Summary ==
  /\ pc = "summary"
  /\ writer = "open"
  /\ log' = Append(log, Ev("add_summary", step))
  /\ pc' = "if_checkpoint"
  /\ UNCHANGED <<resume, summary_step, checkpoint_step, sess, dir, writer,
                 coord, threads, step, pending, caught, nsteps>>

\* model.py:179: _summary_step raises, or the user interrupts it
SummaryRaises ==
  /\ pc = "summary"
  /\ \E kind \in {KeyboardInterrupt, OtherError} :
       RaiseInTry(kind, "summary_step")
  /\ UNCHANGED <<resume, summary_step, checkpoint_step, sess, dir, writer,
                 coord, threads, step, caught, nsteps>>

\* model.py:183-184: if checkpoint_step is not None and (step > 0) and
\* step % checkpoint_step == 0
IfCheckpointAtZero ==
  /\ pc = "if_checkpoint"
  /\ pc' = IF /\ checkpoint_step # None
              /\ NpMod(step, ValueOf(checkpoint_step)) = 0
           THEN "checkpoint" ELSE "while"
  /\ UNCHANGED <<resume, summary_step, checkpoint_step, sess, dir, writer,
                 coord, threads, step, pending, caught, nsteps, log>>

IfCheckpoint ==
  /\ pc = "if_checkpoint"
  /\ pc' = IF /\ checkpoint_step # None
              /\ step > 0
              /\ NpMod(step, ValueOf(checkpoint_step)) = 0
           THEN "checkpoint" ELSE "while"
  /\ UNCHANGED <<resume, summary_step, checkpoint_step, sess, dir, writer,
                 coord, threads, step, pending, caught, nsteps, log>>

\* model.py:185-186: self.save(sess) inside the loop
Checkpoint ==
  /\ pc = "checkpoint"
  /\ LET r == Save(dir, sess)
     IN IF r.ok
        THEN /\ dir' = r.dir
             /\ log' = Append(log, Ev("save", sess.global_step))
             /\ pc' = "while"
             /\ UNCHANGED pending
        ELSE /\ RaiseInTry(OtherError, "save")
             /\ UNCHANGED dir
  /\ UNCHANGED <<resume, summary_step, checkpoint_step, sess, writer, coord,
                 threads, step, caught, nsteps>>

\* model.py:186: the save fails (the disk, the saver) and writes nothing, or
\* the user interrupts it: the KeyboardInterrupt surfaces before the save, or
\* when the save returns, after the checkpoint was written
CheckpointRaises ==
  /\ pc = "checkpoint"
  /\ \/ /\ \E kind \in {KeyboardInterrupt, OtherError} : RaiseInTry(kind, "save")
        /\ UNCHANGED dir
     \/ /\ RaiseInTry(KeyboardInterrupt, "save")
        /\ dir' = Save(dir, sess).dir
  /\ UNCHANGED <<resume, summary_step, checkpoint_step, sess, writer,
                 coord, threads, step, caught, nsteps>>

\* self.save(sess) in an except clause: the exception is handled, and a save
\* that fails raises a new one, which leaves through the finally clause
HandlerSave(kind, dosave) ==
  /\ caught' = kind
  /\ IF dosave
     THEN LET r == Save(dir, sess)
          IN IF r.ok
             THEN /\ dir' = r.dir
                  /\ log' = Append(log, Ev("handler_save", sess.global_step))
                  /\ pending' = NoExc
             ELSE /\ pending' = Exc(OtherError, "handler_save")
                  /\ log' = Append(log, EvRaise(OtherError, "handler_save"))
                  /\ UNCHANGED dir
     ELSE /\ pending' = NoExc
          /\ UNCHANGED <<dir, log>>
  /\ pc' = "finally"
  /\ UNCHANGED <<resume, summary_step, checkpoint_step, sess, writer, coord,
                 threads, step, nsteps>>

\* model.py:188-190
ExceptKeyboardInterruptNoSave ==
  /\ pc = "except_ki"
  /\ HandlerSave(KeyboardInterrupt, FALSE)

ExceptKeyboardInterrupt ==
  /\ pc = "except_ki"
  /\ HandlerSave(KeyboardInterrupt, TRUE)

\* model.py:192-194
ExceptOutOfRangeNoSave ==
  /\ pc = "except_oor"
  /\ HandlerSave(OutOfRangeError, FALSE)

ExceptOutOfRange ==
  /\ pc = "except_oor"
  /\ HandlerSave(OutOfRangeError, TRUE)

\* model.py:190,194: the save in an except clause fails and writes nothing,
\* or the user interrupts it: the KeyboardInterrupt surfaces before the save,
\* or when the save returns, after the checkpoint was written
HandlerSaveRaises ==
  /\ pc \in {"except_ki", "except_oor"}
  /\ caught' = pending.kind
  /\ \/ /\ \E kind \in {KeyboardInterrupt, OtherError} :
             /\ pending' = Exc(kind, "handler_save")
             /\ log' = Append(log, EvRaise(kind, "handler_save"))
        /\ UNCHANGED dir
     \/ /\ pending' = Exc(KeyboardInterrupt, "handler_save")
        /\ log' = Append(log, EvRaise(KeyboardInterrupt, "handler_save"))
        /\ dir' = Save(dir, sess).dir
  /\ pc' = "finally"
  /\ UNCHANGED <<resume, summary_step, checkpoint_step, sess, writer,
                 coord, threads, step, nsteps>>

\* model.py:198: coord.request_stop() in the finally clause
FinallyRequestStop ==
  /\ pc = "finally"
  /\ coord' = CoordRequestStop(coord, FALSE)
  /\ log' = Append(log, Ev("request_stop", 0))
  /\ pc' = "finally_close"
  /\ UNCHANGED <<resume, summary_step, checkpoint_step, sess, dir, writer,
                 threads, step, pending, caught, nsteps>>

\* model.py:199: self.summary_writer.close(), the end of the finally clause:
\* the exception in flight, if any, leaves train; else train goes on to
\* model.py:201
FinallyCloseSkipped ==
  /\ pc = "finally_close"
  /\ pc' = IF pending # NoExc THEN "raised" ELSE "join"
  /\ UNCHANGED <<resume, summary_step, checkpoint_step, sess, dir, writer,
                 coord, threads, step, pending, caught, nsteps, log>>

FinallyClose ==
  /\ pc = "finally_close"
  /\ writer' = "closed"
  /\ log' = Append(log, Ev("close", 0))
  /\ pc' = IF pending # NoExc THEN "raised" ELSE "join"
  /\ UNCHANGED <<resume, summary_step, checkpoint_step, sess, dir, coord,
                 threads, step, pending, caught, nsteps>>

\* model.py:196-199: the user interrupts the finally clause. The
\* KeyboardInterrupt replaces the exception in flight and leaves train: as
\* request_stop is entered (the flag not set), or after request_stop and
\* before or inside close (the writer still open), or when close returns
FinallyInterrupted ==
  /\ \/ /\ pc = "finally"
        /\ UNCHANGED writer
        /\ log' = Append(log, EvRaise(KeyboardInterrupt, "finally"))
     \/ /\ pc = "finally_close"
        /\ UNCHANGED writer
        /\ log' = Append(log, EvRaise(KeyboardInterrupt, "finally"))
     \/ /\ pc = "finally_close"
        /\ writer' = "closed"
        /\ log' = log \o <<Ev("close", 0), EvRaise(KeyboardInterrupt, "finally")>>
  /\ pending' = Exc(KeyboardInterrupt, "finally")
  /\ pc' = "raised"
  /\ UNCHANGED <<resume, summary_step, checkpoint_step, sess, dir, coord,
                 threads, step, caught, nsteps>>

\* model.py:203-205: coord.join(threads) waits for the threads, re-raises an
\* exception a thread reported to the coordinator, else train returns
JoinAfter(ready) ==
  /\ pc = "join"
  /\ ready
  /\ IF coord.exc
     THEN /\ pending' = Exc(OtherError, "join")
          /\ log' = log \o <<Ev("join", 0), EvRaise(OtherError, "join")>>
          /\ pc' = "raised"
     ELSE /\ log' = log \o <<Ev("join", 0), Ev("return", 0)>>
          /\ pc' = "done"
          /\ UNCHANGED pending
  /\ UNCHANGED <<resume, summary_step, checkpoint_step, sess, dir, writer,
                 coord, threads, step, caught, nsteps>>

JoinNoWait == JoinAfter(TRUE)

Join == JoinAfter(\A t \in Thread : threads[t] = "stopped")

\* model.py:203: threads still running when the grace period of join ends
JoinTimeout ==
  /\ pc = "join"
  /\ \E t \in Thread : threads[t] = "running"
  /\ pending' = Exc(OtherError, "join")
  /\ log' = log \o <<Ev("join", 0), EvRaise(OtherError, "join")>>
  /\ pc' = "raised"
  /\ UNCHANGED <<resume, summary_step, checkpoint_step, sess, dir, writer,
                 coord, threads, step, caught, nsteps>>

\* model.py:203: the user interrupts coord.join while it waits or as it
\* returns; join is outside the try statement, so the KeyboardInterrupt
\* leaves train
JoinInterrupted ==
  /\ pc = "join"
  /\ pending' = Exc(KeyboardInterrupt, "join")
  /\ log' = log \o <<Ev("join", 0), EvRaise(KeyboardInterrupt, "join")>>
  /\ pc' = "raised"
  /\ UNCHANGED <<resume, summary_step, checkpoint_step, sess, dir, writer,
                 coord, threads, step, caught, nsteps>>

\* model.py:149-164: the user interrupts train before the try statement is
\* entered; nothing catches it, and neither request_stop nor close is called.
\* At model.py:150 the interrupt comes before the FileWriter is made, or as
\* its constructor returns: the directory then exists and
\* self.summary_writer is not assigned. Inside start_queue_runners
\* (model.py:160) the interrupt finds any number of the threads started; at
\* model.py:162-164 all of them are running
SetupInterrupted ==
  /\ \/ /\ pc \in {"session", "init_local", "init_global", "resume",
                   "enter_try"}
        /\ log' = Append(log, EvRaise(KeyboardInterrupt, "setup"))
        /\ UNCHANGED <<dir, threads>>
     \/ /\ pc = "session"
        /\ dir' = [dir EXCEPT !.exists = TRUE]
        /\ log' = log \o <<Ev("file_writer", 0),
                           EvRaise(KeyboardInterrupt, "setup")>>
        /\ UNCHANGED threads
     \/ /\ pc = "start_threads"
        /\ \E started \in SUBSET Thread :
             threads' = [t \in Thread |->
                           IF t \in started THEN "running" ELSE "unstarted"]
        /\ log' = Append(log, EvRaise(KeyboardInterrupt, "setup"))
        /\ UNCHANGED dir
  /\ pending' = Exc(KeyboardInterrupt, "setup")
  /\ pc' = "raised"
  /\ UNCHANGED <<resume, summary_step, checkpoint_step, sess, writer,
                 coord, step, caught, nsteps>>

-----------------------------------------------------------------------------
(* The data threads started at model.py:160. *)

\* The threads run concurrently with the coordinating thread: a thread takes
\* its steps wherever the coordinating thread is, from model.py:160 on.

\* a thread ends: its queue was closed, or it saw the stop flag
ThreadStops(t) ==
  /\ threads[t] = "running"
  /\ threads' = [threads EXCEPT ![t] = "stopped"]
  /\ UNCHANGED <<resume, summary_step, checkpoint_step, pc, sess, dir, writer,
                 coord, step, pending, caught, nsteps, log>>

\* a thread calls coord.request_stop(ex) and ends: the first request sets the
\* flag and records the exception, unless it is one the coordinator takes for
\* a clean stop; a request that finds the flag set changes nothing. The loop
\* condition of model.py:166 sees the flag the next time it is evaluated
ThreadRequestsStop(t) ==
  /\ threads[t] = "running"
  /\ \E failed \in BOOLEAN : coord' = CoordRequestStop(coord, failed)
  /\ threads' = [threads EXCEPT ![t] = "stopped"]
  /\ UNCHANGED <<resume, summary_step, checkpoint_step, pc, sess, dir, writer,
                 step, pending, caught, nsteps, log>>

-----------------------------------------------------------------------------

Next ==
  \/ OpenSession
  \/ InitLocal
  \/ InitGlobal
  \/ Resume
  \/ StartThreads
  \/ EnterTry
  \/ While
  \/ TrainStep
  \/ TrainStepRaises
  \/ IfSummary
  \/ Summary
  \/ SummaryRaises
  \/ IfCheckpoint
  \/ Checkpoint
  \/ CheckpointRaises
  \/ ExceptKeyboardInterrupt
  \/ ExceptOutOfRange
  \/ HandlerSaveRaises
  \/ SetupInterrupted
  \/ FinallyRequestStop
  \/ FinallyClose
  \/ FinallyInterrupted
  \/ Join
  \/ JoinTimeout
  \/ JoinInterrupted
  \/ \E t \in Thread : ThreadStops(t)
  \/ \E t \in Thread : ThreadRequestsStop(t)

Spec == Init /\ [][Next]_vars

-----------------------------------------------------------------------------
(* save and load called on a model by themselves, with training between. *)

CkptEv(op, req, s, ok) == [op |-> op, req |-> req, sess |-> s, ok |-> ok]

InitCkpt ==
  /\ resume = FALSE
  /\ summary_step = 1
  /\ checkpoint_step = None
  /\ dir \in InitDirs
  /\ pc = "idle"
  /\ sess \in {CkptSess(0), CkptSess(9)}
  /\ writer = "none"
  /\ coord = [stop |-> FALSE, exc |-> FALSE]
  /\ threads = [t \in Thread |-> "unstarted"]
  /\ step = 0
  /\ pending = NoExc
  /\ caught = "none"
  /\ nsteps = 0
  /\ log = <<>>

\* the steps a caller may ask load for: those on disk and the current one
Requests ==
  {None} \cup {Some(f.content.global_step) : f \in dir.files}
         \cup {Some(sess.global_step)}

\* model.py:113-122
CallSave ==
  /\ pc = "idle"
  /\ Len(log) < MaxOps
  /\ LET r == Save(dir, sess)
     IN /\ dir' = r.dir
        /\ log' = Append(log, CkptEv("save", None, sess, r.ok))
  /\ UNCHANGED <<resume, summary_step, checkpoint_step, pc, sess, writer,
                 coord, threads, step, pending, caught, nsteps>>

\* model.py:98-111
CallLoad ==
  /\ pc = "idle"
  /\ Len(log) < MaxOps
  /\ \E st \in Requests :
       LET r == Load(dir, sess, st)
       IN /\ sess' = r.sess
          /\ log' = Append(log, CkptEv("load", st, r.sess, r.ok))
  /\ UNCHANGED <<resume, summary_step, checkpoint_step, pc, dir, writer,
                 coord, threads, step, pending, caught, nsteps>>

\* model.py:60-73: a training step that advances global_step
Advance ==
  /\ pc = "idle"
  /\ nsteps < MaxAdvance
  /\ sess' = [global_step |-> sess.global_step + 1, params |-> sess.params + 1]
  /\ nsteps' = nsteps + 1
  /\ UNCHANGED <<resume, summary_step, checkpoint_step, pc, dir, writer,
                 coord, threads, step, pending, caught, log>>

NextCkpt ==
  \/ CallSave
  \/ CallLoad
  \/ Advance

SpecCkpt == InitCkpt /\ [][NextCkpt]_vars

-----------------------------------------------------------------------------
(* Reading the history. *)

Idx == 1..Len(log)
OpAt(op) == {i \in Idx : log[i].op = op}
Count(op) == Cardinality(OpAt(op))
After(i) == {j \in Idx : j > i}
OpsAfter(i) == [j \in 1..(Len(log) - i) |-> log[i + j].op]

RaisedAt(i, kind, at) == log[i].op = "raise" /\ log[i].exc = Exc(kind, at)

\* the places inside the while loop of model.py:166-186
LoopPlaces == {"train_step", "summary_step", "save"}

\* the events of the loop iteration that the train step at i begins
Iter(i) == {j \in After(i) : \A k \in (i + 1)..j : log[k].op # "train_step"}

\* the iteration that the train step at i begins ran to its end
IterDone(i) ==
  /\ \A j \in Iter(i) :
       (log[j].op = "raise" /\ \A k \in Iter(i) : k < j => log[k].op # "raise")
         => log[j].exc.at \in {"train_step", "finally", "join"}
  /\ \/ \E j \in After(i) : log[j].op \in {"train_step", "request_stop"}
     \/ \E j \in After(i) : log[j].op = "raise"
     \/ pc \in {"while", "train_step"}

\* s is a multiple of n
MultipleOf(s, n) == \E k \in (-s)..s : s = k * n

SavedAfterLastStep ==
  \E j \in Idx : /\ log[j].op \in {"save", "handler_save"}
                 /\ \A k \in After(j) : log[k].op # "train_step"

-----------------------------------------------------------------------------
(* The claims. *)

\* C1: when KeyboardInterrupt is raised during a train step, no train step,
\* summary write or periodic checkpoint follows it; the handler saves exactly
\* once, and train then requests stop, closes the writer, joins the threads
\* and returns; only a failure of the handler's save or of join itself, or a
\* further interrupt in the finally clause, keeps train from returning normally.
C1_InterruptSavesOnceAndStops ==
  \A i \in Idx : RaisedAt(i, KeyboardInterrupt, "train_step") =>
    /\ \A j \in After(i) : log[j].op \notin {"train_step", "add_summary", "save"}
    /\ Cardinality(OpAt("handler_save") \cap After(i)) <= 1
    /\ pc \notin {"train_step", "except_ki"} /\ pending = NoExc =>
         /\ caught = KeyboardInterrupt
         /\ Cardinality(OpAt("handler_save") \cap After(i)) = 1
         /\ log[i + 1] = Ev("handler_save", sess.global_step)
         /\ dir.latest = SaverFile(SavePrefix, sess.global_step)
         /\ FileAt(dir, dir.latest).content = sess
    /\ pc = "done" =>
         OpsAfter(i) = <<"handler_save", "request_stop", "close", "join", "return">>
    /\ pc = "raised" => pending.at \in {"handler_save", "finally", "join"}

C1_Witness ==
  /\ pc = "done"
  /\ caught = KeyboardInterrupt
  /\ \E i \in Idx : RaisedAt(i, KeyboardInterrupt, "train_step")
  /\ nsteps = 2

\* C2: when a train step raises OutOfRangeError, no train step follows it;
\* the handler saves exactly once, and train then requests stop, closes the
\* writer, joins the threads and returns; only a failure of the handler's
\* save or of join itself, or an interrupt in the finally clause, keeps train
\* from returning normally.
C2_ExhaustionSavesOnceAndStops ==
  \A i \in Idx : RaisedAt(i, OutOfRangeError, "train_step") =>
    /\ \A j \in After(i) : log[j].op \notin {"train_step", "add_summary", "save"}
    /\ Cardinality(OpAt("handler_save") \cap After(i)) <= 1
    /\ pc \notin {"train_step", "except_oor"} /\ pending = NoExc =>
         /\ caught = OutOfRangeError
         /\ Cardinality(OpAt("handler_save") \cap After(i)) = 1
         /\ log[i + 1] = Ev("handler_save", sess.global_step)
         /\ dir.latest = SaverFile(SavePrefix, sess.global_step)
         /\ FileAt(dir, dir.latest).content = sess
    /\ pc = "done" =>
         OpsAfter(i) = <<"handler_save", "request_stop", "close", "join", "return">>
    /\ pc = "raised" => pending.at \in {"handler_save", "finally", "join"}

C2_Witness ==
  /\ pc = "done"
  /\ caught = OutOfRangeError
  /\ \E i \in Idx : RaisedAt(i, OutOfRangeError, "train_step")
  /\ nsteps = MaxTrainSteps

\* C3: a failure other than KeyboardInterrupt and OutOfRangeError raised
\* inside the loop (train step, _summary_step, periodic save) is
\* caught by no except clause: no handler save, join or return follows it,
\* no further train step runs, and it leaves train after the finally clause
\* (or an interrupt in the finally clause leaves train in its place).
C3_OtherFailuresPropagate ==
  \A i \in Idx :
    (log[i].op = "raise" /\ log[i].exc.kind = OtherError
       /\ log[i].exc.at \in LoopPlaces) =>
    /\ pending \in {log[i].exc, Exc(KeyboardInterrupt, "finally")}
    /\ caught = "none"
    /\ pc \in {"finally", "finally_close", "raised"}
    /\ \A j \in After(i) :
         \/ log[j].op \in {"request_stop", "close"}
         \/ log[j] = EvRaise(KeyboardInterrupt, "finally")
    /\ Count("handler_save") = 0
    /\ Count("join") = 0
    /\ (pc = "raised" /\ pending = log[i].exc) =>
         OpsAfter(i) = <<"request_stop", "close">>

C3_Witness ==
  /\ pc = "raised"
  /\ pending = Exc(OtherError, "save")
  /\ Count("save") = 1

\* C4 as stated: every run of train that returns normally has saved a
\* checkpoint after its last train step.
C4_Original == pc = "done" => SavedAfterLastStep

\* C4 amended: a run that returns normally after KeyboardInterrupt or
\* OutOfRangeError has saved a checkpoint, in the handler, after its last
\* train step; a run whose loop ends on the coordinator's stop flag makes no
\* save on the way out, so its last train step is followed by a save only
\* when the loop itself saved a checkpoint at that step.
C4_SaveOnInterruptOrExhaustion ==
  pc = "done" =>
    /\ caught \in {KeyboardInterrupt, OutOfRangeError} =>
         /\ SavedAfterLastStep
         /\ log[Len(log) - 4] = Ev("handler_save", sess.global_step)
         /\ FileAt(dir, dir.latest).content = sess
    /\ caught = "none" =>
         /\ Count("handler_save") = 0
         /\ SavedAfterLastStep <=>
              \E i \in OpAt("train_step") :
                /\ OpAt("train_step") \cap After(i) = {}
                /\ checkpoint_step # None
                /\ log[i].arg > 0
                /\ \/ ValueOf(checkpoint_step) = 0
                   \/ MultipleOf(log[i].arg, ValueOf(checkpoint_step))

C4_Witness ==
  /\ pc = "done"
  /\ caught = OutOfRangeError
  /\ nsteps = 1
  /\ SavedAfterLastStep

\* C5: the coordinating thread runs no train step after it has requested
\* stop; when train returns, request_stop was called before the one call of
\* join, and every data thread has terminated.
C5_StopThenJoin ==
  /\ \A i \in OpAt("request_stop") : OpAt("train_step") \cap After(i) = {}
  /\ \A j \in OpAt("join") : \E i \in OpAt("request_stop") : i < j
  /\ Count("join") <= 1
  /\ pc = "done" =>
       /\ Count("join") = 1
       /\ coord.stop
       /\ \A t \in Thread : threads[t] = "stopped"
       /\ log[Len(log)].op = "return"
       /\ log[Len(log) - 1].op = "join"

C5_Witness ==
  /\ pc = "done"
  /\ caught = "none"
  /\ nsteps >= 1
  /\ \A t \in Thread : threads[t] = "stopped"

\* what C6 says of the step value s
CheckpointDue(s) ==
  /\ checkpoint_step # None
  /\ s > 0
  /\ MultipleOf(s, ValueOf(checkpoint_step))

\* C6 as stated: a checkpoint is saved inside the loop after a train step
\* returning s if and only if checkpoint_step is not None, s > 0 and s is a
\* multiple of checkpoint_step.
C6_Original ==
  \A i \in OpAt("train_step") :
    LET saves == OpAt("save") \cap Iter(i)
    IN /\ saves # {} => CheckpointDue(log[i].arg)
       /\ IterDone(i) => (saves # {} <=> CheckpointDue(log[i].arg))

\* what the condition of model.py:183-184 selects: a checkpoint_step of 0
\* selects every s > 0, the remainder by 0 being 0
CheckpointDueOrZero(s) ==
  /\ checkpoint_step # None
  /\ s > 0
  /\ (ValueOf(checkpoint_step) = 0 \/ MultipleOf(s, ValueOf(checkpoint_step)))

\* C6 amended: a checkpoint is saved inside the loop after a train step
\* returning s only if checkpoint_step is not None, s > 0 and either s is a
\* multiple of checkpoint_step or checkpoint_step is 0, at most once, and in
\* every iteration that runs to its end exactly if so; never with
\* checkpoint_step None, never for s = 0.
C6_PeriodicCheckpoint ==
  \A i \in OpAt("train_step") :
    LET saves == OpAt("save") \cap Iter(i)
    IN /\ saves # {} => CheckpointDueOrZero(log[i].arg)
       /\ Cardinality(saves) <= 1
       /\ IterDone(i) => (saves # {} <=> CheckpointDueOrZero(log[i].arg))
       /\ (checkpoint_step = None \/ log[i].arg = 0) => saves = {}

C6_Witness ==
  /\ pc = "while"
  /\ nsteps = 2
  /\ checkpoint_step = Some(2)
  /\ Count("save") = 1
  /\ log[Len(log)].op = "save"
  /\ step = 2

\* what C7 says of the step value s
SummaryDue(s) == s > 0 /\ MultipleOf(s, summary_step)

\* C7 as stated: a summary entry tagged with s is added after a train step
\* returning s if and only if s > 0 and s is a multiple of summary_step, and
\* before the checkpoint of the same step.
C7_Original ==
  \A i \in OpAt("train_step") :
    LET adds == OpAt("add_summary") \cap Iter(i)
    IN /\ adds # {} => SummaryDue(log[i].arg)
       /\ \A j \in adds : log[j].arg = log[i].arg
       /\ IterDone(i) => (adds # {} <=> SummaryDue(log[i].arg))
       /\ \A j \in adds : \A k \in OpAt("save") \cap Iter(i) : j < k

\* what the condition of model.py:169 selects: a summary_step of 0 selects
\* every s > 0, the remainder by 0 being 0
SummaryDueOrZero(s) == s > 0 /\ (summary_step = 0 \/ MultipleOf(s, summary_step))

\* C7 amended: a summary entry is added after a train step returning s only
\* if s > 0 and either s is a multiple of summary_step or summary_step is 0,
\* at most once, tagged with s, and in every iteration that runs to its end
\* exactly if so; in an iteration that also saves a checkpoint the summary
\* entry comes first; the writer was opened on the checkpoint directory.
C7_PeriodicSummary ==
  \A i \in OpAt("train_step") :
    LET adds == OpAt("add_summary") \cap Iter(i)
    IN /\ adds # {} => SummaryDueOrZero(log[i].arg)
       /\ Cardinality(adds) <= 1
       /\ \A j \in adds : log[j].arg = log[i].arg
       /\ IterDone(i) => (adds # {} <=> SummaryDueOrZero(log[i].arg))
       /\ \A j \in adds : \A k \in OpAt("save") \cap Iter(i) : j < k
       /\ log[1].op = "file_writer" /\ dir.exists

C7_Witness ==
  /\ pc = "while"
  /\ step = 2
  /\ summary_step = 2
  /\ sess.global_step = 3
  /\ Len(log) >= 2
  /\ log[Len(log)].op = "save"
  /\ log[Len(log) - 1] = Ev("add_summary", 2)

\* C8: train loads a checkpoint only when resume is set, and then exactly
\* once: after both initializers, before the data threads are started and
\* before any train step, so that the session holds the latest checkpoint's
\* values when the threads are started.
C8_LoadOnlyOnResume ==
  /\ ~resume => Count("load") = 0
  /\ Count("load") <= 1
  /\ \A i \in OpAt("load") :
       /\ \E j \in OpAt("init_local") : \E k \in OpAt("init_global") : j < k /\ k < i
       /\ \A j \in OpAt("start_threads") \cup OpAt("train_step") : i < j
  /\ (resume /\ Count("start_threads") > 0) => Count("load") = 1
  /\ (resume /\ pc = "start_threads") =>
       /\ LatestCheckpoint(dir) \in FileNames(dir)
       /\ sess = FileAt(dir, LatestCheckpoint(dir)).content
       /\ log[Len(log)] = Ev("load", sess.global_step)

C8_Witness ==
  /\ resume
  /\ pc = "train_step"
  /\ nsteps = 0
  /\ sess.global_step = 1
  /\ Cardinality(dir.files) = 2

\* the try statement of model.py:165 was entered
TryEntered == Count("try") > 0

InterruptedInFinally ==
  \E i \in Idx : log[i] = EvRaise(KeyboardInterrupt, "finally")

\* C9 as stated: on every exit path of the training loop, once the try
\* statement is left, request_stop was called and the writer closed exactly
\* once each; no summary entry is added after the close; a failure that
\* leaves train from the try statement does so before join is called.
C9_Original ==
  /\ \A i \in OpAt("close") : OpAt("add_summary") \cap After(i) = {}
  /\ (TryEntered /\ pc \in {"join", "done", "raised"}) =>
       /\ Count("request_stop") = 1
       /\ Count("close") = 1
       /\ writer = "closed"
       /\ coord.stop
  /\ (pc = "raised" /\ pending.at # "join") => Count("join") = 0

\* C9 amended: once the try statement is left, on any of the paths out of
\* the loop (stop flag, KeyboardInterrupt, OutOfRangeError, a propagating
\* failure, a failing save in an except clause), request_stop was called and
\* the writer closed exactly once each, unless a KeyboardInterrupt cuts the
\* finally clause short: then train is left with request_stop and close both
\* skipped, or with request_stop called and the writer still open, or with
\* both done. Neither is ever called twice, close never comes before
\* request_stop, and neither is called when train is left before the try
\* statement is entered; no summary entry is added after the close; a
\* failure that leaves train from the try statement does so before join is
\* called.
C9_FinallyOnEveryExit ==
  /\ Count("request_stop") <= 1
  /\ Count("close") <= 1
  /\ \A i \in OpAt("close") : OpAt("add_summary") \cap After(i) = {}
  /\ \A i \in OpAt("close") : \E j \in OpAt("request_stop") : j < i
  /\ (TryEntered /\ pc \in {"join", "done", "raised"}) =>
       IF InterruptedInFinally
       THEN /\ pc = "raised"
            /\ pending = Exc(KeyboardInterrupt, "finally")
            /\ writer = "closed" <=> Count("close") = 1
            /\ Count("request_stop") = 1 => coord.stop
            /\ Count("join") = 0
       ELSE /\ Count("request_stop") = 1
            /\ Count("close") = 1
            /\ writer = "closed"
            /\ coord.stop
  /\ ~TryEntered =>
       /\ Count("request_stop") = 0
       /\ Count("close") = 0
       /\ writer # "closed"
  /\ (pc = "raised" /\ pending.at # "join") => Count("join") = 0

C9_Witness ==
  /\ pc = "raised"
  /\ pending.at = "handler_save"
  /\ caught = OutOfRangeError
  /\ writer = "closed"

\* the save events of the history before position j
SavesBefore(j) == {i \in Idx : i < j /\ log[i].op = "save"}
LastOf(S) == CHOOSE i \in S : \A k \in S : k <= i

\* C10: save creates the directory when missing and writes the checkpoint
\* named model-<s> for the session's global step s; load(step=s) after a save
\* at s restores what that save wrote, and load() restores what the most
\* recent save wrote, so the session's global step is again the saved one.
C10_SaveLoadRoundTrip ==
  /\ \A i \in Idx : log[i].op = "save" => log[i].ok
  /\ (log # <<>> /\ log[Len(log)].op = "save") =>
       LET saved == log[Len(log)].sess
       IN /\ dir.exists
          /\ LoadPath(saved.global_step) \in FileNames(dir)
          /\ FileAt(dir, LoadPath(saved.global_step)).content = saved
          /\ LatestCheckpoint(dir) = LoadPath(saved.global_step)
  /\ \A j \in Idx : log[j].op = "load" =>
       /\ log[j].req # None =>
            LET same == {i \in SavesBefore(j) :
                           log[i].sess.global_step = ValueOf(log[j].req)}
            IN same # {} =>
                 /\ log[j].ok
                 /\ log[j].sess = log[LastOf(same)].sess
                 /\ log[j].sess.global_step = ValueOf(log[j].req)
       /\ log[j].req = None =>
            (SavesBefore(j) # {} =>
               /\ log[j].ok
               /\ log[j].sess = log[LastOf(SavesBefore(j))].sess)

C10_Witness ==
  /\ Len(log) = 3
  /\ log[1].op = "save" /\ log[1].sess.global_step = 9
  /\ log[2].op = "save" /\ log[2].sess.global_step = 10
  /\ log[3].op = "load" /\ log[3].req = Some(9) /\ log[3].ok
  /\ sess = CkptSess(9)
  /\ ~(EmptyDir.exists)
  /\ Cardinality(dir.files) = 2

====
